---- MODULE Spec2Model ----
(***************************************************************************)
(* Model of carbon-footprint-cli/src/main.rs: the interactive itinerary    *)
(* builder (get_user_input, get_flight_details), the request built by      *)
(* main, and the response interpreter (post_estimate,                      *)
(* make_estimates_request, the match in main).                             *)
(*                                                                         *)
(* A line of input is a sequence of one-character strings, so that trim    *)
(* and the validators work on characters as the code does.  Option<T> is   *)
(* a sequence of length at most one: None is <<>>, Some(x) is <<x>>.       *)
(***************************************************************************)
EXTENDS Integers, Sequences, FiniteSets, TLC

None == <<>>
Some(x) == <<x>>
IsSome(o) == o /= <<>>
Unwrap(o) == o[1]

(***************************************************************************)
(* Bounds of the model.                                                    *)
(***************************************************************************)
\* the operator types the numbers 0..MaxCount at the two numeric prompts
MaxCount == 2
\* consecutive rejected lines followed at one prompt
MaxAttempts == 2
\* longest `errors` array in a response body
MaxErrors == 2

(***************************************************************************)
(* Characters and str::trim (main.rs:243).                                 *)
(***************************************************************************)
Whitespace == {" ", "\t", "\n", "\r"}
Digits == <<"0", "1", "2", "3", "4", "5", "6", "7", "8", "9">>
AsciiUppercase == {"A", "B", "C", "D", "E", "F", "G", "H", "I", "J", "K", "L", "M",
                   "N", "O", "P", "Q", "R", "S", "T", "U", "V", "W", "X", "Y", "Z"}

RECURSIVE trim_start(_)
trim_start(s) ==
    IF s /= <<>> /\ Head(s) \in Whitespace THEN trim_start(Tail(s)) ELSE s

RECURSIVE trim_end(_)
trim_end(s) ==
    IF s /= <<>> /\ s[Len(s)] \in Whitespace
    THEN trim_end(SubSeq(s, 1, Len(s) - 1))
    ELSE s

trim(s) == trim_end(trim_start(s))

(***************************************************************************)
(* str::parse::<u32>() and str::parse::<usize>() (main.rs:146-153): an     *)
(* optional leading '+', then one or more decimal digits.  The lines of    *)
(* the model have at most a few digits, so the overflow error of parse     *)
(* cannot occur and both types parse alike.                                *)
(***************************************************************************)
is_digit(c) == \E d \in 1..Len(Digits) : Digits[d] = c
digit_value(c) == (CHOOSE d \in 1..Len(Digits) : Digits[d] = c) - 1

RECURSIVE digits_value(_)
digits_value(s) ==
    IF s = <<>> THEN 0
    ELSE 10 * digits_value(SubSeq(s, 1, Len(s) - 1)) + digit_value(s[Len(s)])

strip_sign(s) == IF Len(s) > 1 /\ Head(s) = "+" THEN Tail(s) ELSE s

parse_u32(s) ==
    LET d == strip_sign(s) IN
    IF d /= <<>> /\ \A k \in 1..Len(d) : is_digit(d[k])
    THEN Some(digits_value(d))
    ELSE None

parse_usize(s) == parse_u32(s)

(***************************************************************************)
(* The validators get_flight_details hands to get_user_input.              *)
(***************************************************************************)
economy == <<"e", "c", "o", "n", "o", "m", "y">>
premium == <<"p", "r", "e", "m", "i", "u", "m">>

validate_passengers(input) == IsSome(parse_u32(input))

validate_number_of_legs(input) == IsSome(parse_usize(input))

\* the airport validator without the test of the length
validate_airport_any_length(input) ==
    \A k \in 1..Len(input) : input[k] \in AsciiUppercase

validate_airport(input) ==
    /\ \A k \in 1..Len(input) : input[k] \in AsciiUppercase
    /\ Len(input) = 3

validate_cabin_class(input) == input = <<>> \/ input \in {economy, premium}

validator(field, input) ==
    CASE field = "passengers" -> validate_passengers(input)
      [] field = "number_of_legs" -> validate_number_of_legs(input)
      [] field = "departure_airport" -> validate_airport(input)
      [] field = "destination_airport" -> validate_airport(input)
      [] field = "cabin_class" -> validate_cabin_class(input)

prompt(field) ==
    CASE field = "passengers" -> "Enter the number of passengers: "
      [] field = "number_of_legs" -> "Enter the number of legs: "
      [] field = "departure_airport" -> "Enter the departure airport IATA code: "
      [] field = "destination_airport" -> "Enter the destination airport IATA code: "
      [] field = "cabin_class" -> "Enter the cabin class (optional, defaults to 'economy'): "

error_message(field) ==
    CASE field \in {"passengers", "number_of_legs"} ->
            "Invalid input. Please enter a valid number."
      [] field \in {"departure_airport", "destination_airport"} ->
            "Invalid input. IATA codes should be exactly 3 uppercase letters."
      [] field = "cabin_class" ->
            "Invalid input. Cabin class can be 'economy' or 'premium'."

\* one iteration of the loop of get_user_input on the line read: Some(value)
\* when the loop returns, None when it prints error_message and goes round
get_user_input(field, line) ==
    LET input == trim(line) IN
    IF input /= <<>> /\ validator(field, input) THEN Some(input) ELSE None

\* the value stored in Leg.cabin_class (main.rs:181)
cabin_class_of(cabin_class) ==
    Some(IF cabin_class = <<>> THEN economy ELSE cabin_class)

\* the loop written as 0..=number_of_legs
loop_continues_inclusive(index, n) == index <= n

\* the loop condition of `for i in 0..number_of_legs` (main.rs:157)
loop_continues(index, n) == index < n

(***************************************************************************)
(* The lines the operator may type.  read_line keeps the line terminator,  *)
(* and returns the empty string at end of input.                           *)
(***************************************************************************)
RECURSIVE numeral(_)
numeral(n) ==
    IF n < 10 THEN <<Digits[n + 1]>>
    ELSE numeral(n \div 10) \o <<Digits[(n % 10) + 1]>>

nl(s) == s \o <<"\n">>

NumberLines ==
    {nl(numeral(n)) : n \in 0..MaxCount}
        \cup {nl(<<" ", "+", "1", " ">>), nl(<<"-", "1">>), nl(<<"1", ".", "5">>)}

AirportLines ==
    {nl(<<"L", "H", "R">>), <<" ", "J", "F", "K", "\t", "\r", "\n">>,
     nl(<<"l", "h", "r">>), nl(<<"L", "H">>), nl(<<"L", "H", "R", "X">>),
     nl(<<"L", "1", "R">>)}

CabinLines ==
    {nl(economy), nl(<<" ">> \o premium),
     nl(<<"b", "u", "s", "i", "n", "e", "s", "s">>)}

BlankLines == {<<>>, nl(<<>>), nl(<<" ", " ">>)}

InputLines == NumberLines \cup AirportLines \cup CabinLines \cup BlankLines

(***************************************************************************)
(* State.                                                                  *)
(***************************************************************************)
VARIABLES
    pc,                   \* where main is: the field being prompted for, or a later step
    input,                \* the line last read by get_user_input, untrimmed
    console,              \* the text last written to the terminal
    attempts,             \* lines rejected so far at the current prompt
    passengers,           \* get_flight_details: passengers
    number_of_legs,       \* get_flight_details: number_of_legs
    i,                    \* get_flight_details: loop index
    departure_airport,    \* get_flight_details: departure_airport of the leg in hand
    destination_airport,  \* get_flight_details: destination_airport of the leg in hand
    legs,                 \* get_flight_details: legs
    request,              \* main: request (None until it is built)
    json_body,            \* post_estimate: the serialized request sent (None until then)
    network_calls,        \* requests handed to the HTTP client
    transport,            \* what the HTTP client came back with
    result                \* what make_estimates_request returned (None until then)

vars == <<pc, input, console, attempts, passengers, number_of_legs, i,
          departure_airport, destination_airport, legs, request,
          json_body, network_calls, transport, result>>

builder_vars == <<passengers, number_of_legs, i, departure_airport,
                  destination_airport, legs>>

pipeline_vars == <<request, json_body, network_calls, transport, result>>

Fields == {"passengers", "number_of_legs", "departure_airport",
           "destination_airport", "cabin_class"}

leg_header(index) == "Enter details for leg " \o ToString(index + 1) \o ":"

Init ==
    /\ pc = "passengers"
    /\ input = <<>>
    /\ console = ""
    /\ attempts = 0
    /\ passengers = 0
    /\ number_of_legs = 0
    /\ i = 0
    /\ departure_airport = <<>>
    /\ destination_airport = <<>>
    /\ legs = <<>>
    /\ request = None
    /\ json_body = None
    /\ network_calls = 0
    /\ transport = <<"idle">>
    /\ result = None

\* the else arm of get_user_input: print error_message, prompt again
Reprompt(field) ==
    /\ attempts < MaxAttempts
    /\ attempts' = attempts + 1
    /\ console' = error_message(field)
    /\ UNCHANGED <<pc, builder_vars, pipeline_vars>>

\* main.rs:143-147
GetPassengers(line) ==
    /\ pc = "passengers"
    /\ input' = line
    /\ LET got == get_user_input("passengers", line) IN
       IF IsSome(got)
       THEN /\ passengers' = Unwrap(parse_u32(Unwrap(got)))
            /\ pc' = "number_of_legs"
            /\ attempts' = 0
            /\ console' = prompt("passengers")
            /\ UNCHANGED <<number_of_legs, i, departure_airport,
                           destination_airport, legs, pipeline_vars>>
       ELSE Reprompt("passengers")

\* main.rs:149-157
GetNumberOfLegs(line) ==
    /\ pc = "number_of_legs"
    /\ input' = line
    /\ LET got == get_user_input("number_of_legs", line) IN
       IF IsSome(got)
       THEN LET n == Unwrap(parse_usize(Unwrap(got))) IN
            /\ number_of_legs' = n
            /\ i' = 0
            /\ legs' = <<>>
            /\ attempts' = 0
            /\ IF loop_continues(0, n)
               THEN pc' = "departure_airport" /\ console' = leg_header(0)
               ELSE pc' = "build_request" /\ console' = prompt("number_of_legs")
            /\ UNCHANGED <<passengers, departure_airport, destination_airport,
                           pipeline_vars>>
       ELSE Reprompt("number_of_legs")

\* main.rs:160-164
GetDepartureAirport(line) ==
    /\ pc = "departure_airport"
    /\ input' = line
    /\ LET got == get_user_input("departure_airport", line) IN
       IF IsSome(got)
       THEN /\ departure_airport' = Unwrap(got)
            /\ pc' = "destination_airport"
            /\ attempts' = 0
            /\ console' = prompt("departure_airport")
            /\ UNCHANGED <<passengers, number_of_legs, i, destination_airport,
                           legs, pipeline_vars>>
       ELSE Reprompt("departure_airport")

\* main.rs:166-170
GetDestinationAirport(line) ==
    /\ pc = "destination_airport"
    /\ input' = line
    /\ LET got == get_user_input("destination_airport", line) IN
       IF IsSome(got)
       THEN /\ destination_airport' = Unwrap(got)
            /\ pc' = "cabin_class"
            /\ attempts' = 0
            /\ console' = prompt("destination_airport")
            /\ UNCHANGED <<passengers, number_of_legs, i, departure_airport,
                           legs, pipeline_vars>>
       ELSE Reprompt("destination_airport")

\* main.rs:172-185, and the next turn of the loop at main.rs:157-158
GetCabinClass(line) ==
    /\ pc = "cabin_class"
    /\ input' = line
    /\ LET got == get_user_input("cabin_class", line) IN
       IF IsSome(got)
       THEN /\ legs' = Append(legs,
                        [departure_airport |-> departure_airport,
                         destination_airport |-> destination_airport,
                         cabin_class |-> cabin_class_of(Unwrap(got))])
            /\ i' = i + 1
            /\ attempts' = 0
            /\ IF loop_continues(i + 1, number_of_legs)
               THEN pc' = "departure_airport" /\ console' = leg_header(i + 1)
               ELSE pc' = "build_request" /\ console' = prompt("cabin_class")
            /\ UNCHANGED <<passengers, number_of_legs, departure_airport,
                           destination_airport, pipeline_vars>>
       ELSE Reprompt("cabin_class")

\* main.rs:200-208: get_flight_details returns and main builds the request
BuildRequest ==
    /\ pc = "build_request"
    /\ request' = Some([estimate_type |-> "flight",
                        passengers |-> passengers,
                        legs |-> legs,
                        distance_unit |-> None])
    /\ pc' = "make_estimates_request"
    /\ UNCHANGED <<input, console, attempts, builder_vars, json_body,
                   network_calls, transport, result>>

NextBuilder ==
    \/ \E line \in InputLines : GetPassengers(line)
    \/ \E line \in InputLines : GetNumberOfLegs(line)
    \/ \E line \in InputLines : GetDepartureAirport(line)
    \/ \E line \in InputLines : GetDestinationAirport(line)
    \/ \E line \in InputLines : GetCabinClass(line)
    \/ BuildRequest

\* the itinerary builder and the construction of the request
SpecBuilder == Init /\ [][NextBuilder]_vars

(***************************************************************************)
(* Results and errors.  Result<T, CliError> is a record with a tag and two *)
(* options, of which exactly one is Some.                                  *)
(***************************************************************************)
Ok(v) == [tag |-> "Ok", value |-> Some(v), error |-> None]
Err(e) == [tag |-> "Err", value |-> None, error |-> Some(e)]

\* enum CliError (main.rs:82-87); message is the text of the wrapped error
NetworkError(text) == [kind |-> "NetworkError", message |-> text]
UnexpectedResponseFormat(text) == [kind |-> "UnexpectedResponseFormat", message |-> text]
ApiError(text) == [kind |-> "ApiError", message |-> text]

\* impl fmt::Display for CliError (main.rs:89-99)
Display(err) ==
    CASE err.kind = "NetworkError" -> "Network error: " \o err.message
      [] err.kind = "UnexpectedResponseFormat" ->
            "Unexpected response format: " \o err.message
      [] err.kind = "ApiError" -> "API error: " \o err.message

(***************************************************************************)
(* Response bodies.  A body is text that is not JSON, a JSON scalar, or a  *)
(* JSON object; of an object the model keeps the keys `data`, `message`    *)
(* and `errors`, each absent (None) or holding a JSON value.  A number of  *)
(* the body stands for the f32 it denotes.                                 *)
(***************************************************************************)
JNull == <<"null">>
JNumber(n) == <<"number", n>>
JString(s) == <<"string", s>>
JArray(items) == <<"array", items>>
\* the object under `data`: its key `attributes` absent, or a complete
\* well-typed attributes object
JData(attributes) == <<"object", attributes>>

NotJson == <<"text">>
JScalar == <<"scalar">>
JObject(members) == <<"object", members>>

ScenarioA ==
    [carbon_g |-> 99911700, carbon_lb |-> 267, carbon_kg |-> 99911,
     carbon_mt |-> 99, distance_unit |-> "km", distance_value |-> 5660]

ShortHop ==
    [carbon_g |-> 1200, carbon_lb |-> 2, carbon_kg |-> 1,
     carbon_mt |-> 0, distance_unit |-> "mi", distance_value |-> 1]

Attributes == {ScenarioA, ShortHop}

ValidationFailed == "Validation failed: Legs require valid airport codes"
InvalidCodes == "These IATA codes are invalid: [\"XYZ\"]"

DataMembers ==
    {None, Some(JNull), Some(JNumber(7)), Some(JData(None))}
        \cup {Some(JData(Some(a))) : a \in Attributes}

MessageMembers ==
    {None, Some(JNull), Some(JNumber(7)), Some(JString("")),
     Some(JString(ValidationFailed))}

ErrorObjects ==
    {[detail |-> None], [detail |-> Some(ValidationFailed)],
     [detail |-> Some(InvalidCodes)]}

ErrorsMembers ==
    {None, Some(JString("error"))}
        \cup {Some(JArray(items)) :
                items \in UNION {[1..n -> ErrorObjects] : n \in 0..MaxErrors}}

Bodies ==
    {NotJson, JScalar}
        \cup {JObject([data |-> d, message |-> m, errors |-> e]) :
                d \in DataMembers, m \in MessageMembers, e \in ErrorsMembers}

StatusCodes == {200, 400, 500}

\* what the HTTP client can come back with: send() fails, text() fails, or
\* a status and a body
Transports ==
    {<<"send_error">>}
        \cup {<<"text_error", status>> : status \in StatusCodes}
        \cup {<<"response", status, body>> : status \in StatusCodes, body \in Bodies}

(***************************************************************************)
(* serde_json::from_str::<FlightEstimateResponse> (main.rs:26-47, 122).    *)
(* Unknown keys such as `errors` are skipped; a key that is absent or null *)
(* gives None; a value of the wrong type, or a `data` object without       *)
(* `attributes`, fails the whole decode.                                   *)
(***************************************************************************)
deserialize_data(member) ==
    IF member = None \/ Unwrap(member)[1] = "null" THEN Ok(None)
    ELSE IF Unwrap(member)[1] /= "object"
         THEN Err("invalid type: expected struct EstimateData")
    ELSE IF Unwrap(member)[2] = None
         THEN Err("missing field attributes")
    ELSE Ok(Some([attributes |-> Unwrap(Unwrap(member)[2])]))

deserialize_message(member) ==
    IF member = None \/ Unwrap(member)[1] = "null" THEN Ok(None)
    ELSE IF Unwrap(member)[1] /= "string"
         THEN Err("invalid type: expected a string")
    ELSE Ok(Some(Unwrap(member)[2]))

from_str(body) ==
    IF body[1] = "text" THEN Err("expected value at line 1 column 1")
    ELSE IF body[1] /= "object"
         THEN Err("invalid type: expected struct FlightEstimateResponse")
    ELSE LET data == deserialize_data(body[2].data)
             message == deserialize_message(body[2].message)
         IN  IF data.tag = "Err" THEN data
             ELSE IF message.tag = "Err" THEN message
             ELSE Ok([data |-> Unwrap(data.value),
                      message |-> Unwrap(message.value)])

(***************************************************************************)
(* serde_json::to_string(request) (main.rs:8-24, 67).  A serialized object *)
(* is the sequence of its <<key, value>> members in the order written.     *)
(* estimate_type is written under the key "type"; cabin_class and          *)
(* distance_unit are skipped when None.                                    *)
(***************************************************************************)
\* Leg serialized without skip_serializing_if: a None is written as null
to_string_leg_with_null(leg) ==
    <<<<"departure_airport", leg.departure_airport>>,
      <<"destination_airport", leg.destination_airport>>,
      <<"cabin_class",
        IF leg.cabin_class = None THEN <<"null">> ELSE Unwrap(leg.cabin_class)>>>>

to_string_leg(leg) ==
    <<<<"departure_airport", leg.departure_airport>>,
      <<"destination_airport", leg.destination_airport>>>>
        \o (IF leg.cabin_class = None THEN <<>>
            ELSE <<<<"cabin_class", Unwrap(leg.cabin_class)>>>>)

to_string(req) ==
    <<<<"type", req.estimate_type>>,
      <<"passengers", req.passengers>>,
      <<"legs", [k \in 1..Len(req.legs) |-> to_string_leg(req.legs[k])]>>>>
        \o (IF req.distance_unit = None THEN <<>>
            ELSE <<<<"distance_unit", Unwrap(req.distance_unit)>>>>)

(***************************************************************************)
(* ApiClient::post_estimate (main.rs:62-79): one send, then the body text. *)
(***************************************************************************)
post_estimate(came_back) ==
    CASE came_back[1] = "send_error" -> Err(NetworkError("error sending request"))
      [] came_back[1] = "text_error" -> Err(NetworkError("error decoding response body"))
      [] came_back[1] = "response" -> Ok(came_back[3])

\* post_estimate sending a second time when the first attempt failed
sends_with_retry(came_back) == IF came_back[1] = "response" THEN 1 ELSE 2

\* the times post_estimate calls send(): once, outside any loop, whatever
\* comes back (main.rs:69-76)
sends(came_back) == 1

\* interpret with `data` looked at before `message`
interpret_data_first(response_body) ==
    LET response_json == from_str(response_body) IN
    IF response_json.tag = "Ok"
    THEN LET response == Unwrap(response_json.value) IN
         IF IsSome(response.data)
         THEN Ok([data |-> Some(Unwrap(response.data)), message |-> None])
         ELSE IF IsSome(response.message)
              THEN Err(ApiError(Unwrap(response.message)))
              ELSE Err(ApiError("Missing response data"))
    ELSE Err(UnexpectedResponseFormat(Unwrap(response_json.error)))

\* interpret with the decode error reported as an ApiError
interpret_decode_error_as_api(response_body) ==
    LET response_json == from_str(response_body) IN
    IF response_json.tag = "Ok"
    THEN LET response == Unwrap(response_json.value) IN
         IF IsSome(response.message)
         THEN Err(ApiError(Unwrap(response.message)))
         ELSE IF IsSome(response.data)
              THEN Ok([data |-> Some(Unwrap(response.data)), message |-> None])
              ELSE Err(ApiError("Missing response data"))
    ELSE Err(ApiError(Unwrap(response_json.error)))

\* interpret returning the decoded response as it is once `message` is None
interpret_ok_without_data(response_body) ==
    LET response_json == from_str(response_body) IN
    IF response_json.tag = "Ok"
    THEN LET response == Unwrap(response_json.value) IN
         IF IsSome(response.message)
         THEN Err(ApiError(Unwrap(response.message)))
         ELSE Ok(response)
    ELSE Err(UnexpectedResponseFormat(Unwrap(response_json.error)))

(***************************************************************************)
(* make_estimates_request, the match on the decoded body (main.rs:122-139).*)
(***************************************************************************)
interpret(response_body) ==
    LET response_json == from_str(response_body) IN
    IF response_json.tag = "Ok"
    THEN LET response == Unwrap(response_json.value) IN
         IF IsSome(response.message)
         THEN Err(ApiError(Unwrap(response.message)))
         ELSE IF IsSome(response.data)
              THEN Ok([data |-> Some(Unwrap(response.data)), message |-> None])
              ELSE Err(ApiError("Missing response data"))
    ELSE Err(UnexpectedResponseFormat(Unwrap(response_json.error)))

\* make_estimates_request refusing a body that comes with an error status
make_estimates_request_by_status(came_back) ==
    LET posted == post_estimate(came_back) IN
    IF posted.tag = "Err" THEN posted
    ELSE IF came_back[2] >= 400 THEN Err(ApiError("request failed"))
    ELSE interpret(Unwrap(posted.value))

\* make_estimates_request (main.rs:115-140)
make_estimates_request(came_back) ==
    LET posted == post_estimate(came_back) IN
    IF posted.tag = "Err" THEN posted ELSE interpret(Unwrap(posted.value))

\* main.rs:213-232: what main prints for the result
report(res) ==
    IF res.tag = "Ok"
    THEN IF IsSome(Unwrap(res.value).data)
         THEN "Estimated carbon footprint:"
         ELSE "Error: Missing response data"
    ELSE "Error: " \o Display(Unwrap(res.error))

\* main.rs:213: the call of make_estimates_request, to its return
MakeEstimatesRequest(came_back) ==
    /\ pc = "make_estimates_request"
    /\ json_body' = Some(to_string(Unwrap(request)))
    /\ network_calls' = network_calls + sends(came_back)
    /\ transport' = came_back
    /\ result' = Some(make_estimates_request(came_back))
    /\ pc' = "report"
    /\ UNCHANGED <<input, console, attempts, builder_vars, request>>

\* main.rs:213-232: the match on the result
Report ==
    /\ pc = "report"
    /\ console' = report(Unwrap(result))
    /\ pc' = "done"
    /\ UNCHANGED <<input, attempts, builder_vars, pipeline_vars>>

NextPipeline ==
    \/ \E came_back \in Transports : MakeEstimatesRequest(came_back)
    \/ Report

(***************************************************************************)
(* The requests of the tests (main.rs:302-311, 349-358, 400-416, 462-478), *)
(* and one without legs.                                                   *)
(***************************************************************************)
LHR == <<"L", "H", "R">>
JFK == <<"J", "F", "K">>
XYZ == <<"X", "Y", "Z">>
business == <<"b", "u", "s", "i", "n", "e", "s", "s">>

Leg(from, to, cabin) ==
    [departure_airport |-> from, destination_airport |-> to, cabin_class |-> cabin]

FlightEstimateRequest(count, itinerary) ==
    [estimate_type |-> "flight", passengers |-> count, legs |-> itinerary,
     distance_unit |-> None]

TestRequests ==
    {FlightEstimateRequest(100, <<Leg(LHR, JFK, None)>>),
     FlightEstimateRequest(100, <<Leg(LHR, XYZ, None)>>),
     FlightEstimateRequest(100, <<Leg(LHR, JFK, None), Leg(JFK, LHR, None)>>),
     FlightEstimateRequest(100, <<Leg(LHR, JFK, Some(economy)),
                                  Leg(JFK, LHR, Some(business))>>),
     FlightEstimateRequest(1, <<>>)}

\* the requests make_estimates_request is given: those of the tests, and
\* one with the distance unit set and the cabin class set in one leg only
Requests ==
    TestRequests
        \cup {[FlightEstimateRequest(2, <<Leg(LHR, JFK, Some(premium)),
                                           Leg(JFK, LHR, None)>>)
                EXCEPT !.distance_unit = Some("km")]}

\* make_estimates_request called on a request in hand, as the tests call it
InitPipeline ==
    /\ pc = "make_estimates_request"
    /\ input = <<>>
    /\ console = ""
    /\ attempts = 0
    /\ \E r \in Requests :
          /\ request = Some(r)
          /\ passengers = r.passengers
          /\ legs = r.legs
          /\ number_of_legs = Len(r.legs)
          /\ i = Len(r.legs)
    /\ departure_airport = <<>>
    /\ destination_airport = <<>>
    /\ json_body = None
    /\ network_calls = 0
    /\ transport = <<"idle">>
    /\ result = None

\* the request, the transport and the interpretation of the response
SpecPipeline == InitPipeline /\ [][NextPipeline]_vars

Next == NextBuilder \/ NextPipeline

\* the whole program
Spec == Init /\ [][Next]_vars

(***************************************************************************)
(* Properties of the response interpreter, checked under SpecPipeline.     *)
(***************************************************************************)
\* make_estimates_request has returned and the HTTP client had brought a body
Answered == pc \in {"report", "done"} /\ transport[1] = "response"
ResponseStatus == transport[2]
ResponseBody == transport[3]
Returned == Unwrap(result)

IsObject(body) == body[1] = "object"
\* the key is absent, or holds null
NoMember(member) == member = None \/ Unwrap(member)[1] = "null"
HoldsString(member) == member /= None /\ Unwrap(member)[1] = "string"
HoldsAttributes(member) ==
    member /= None /\ Unwrap(member)[1] = "object" /\ Unwrap(member)[2] /= None
AttributesIn(member) == Unwrap(Unwrap(member)[2])
\* the body fits the envelope: an object whose `data`, if any, is a data
\* object with attributes and whose `message`, if any, is a string
DecodesAsEnvelope(body) ==
    /\ IsObject(body)
    /\ NoMember(body[2].data) \/ HoldsAttributes(body[2].data)
    /\ NoMember(body[2].message) \/ HoldsString(body[2].message)

\* C1: a body that decodes as the envelope and has a non-empty `message`
\* gives Err(ApiError(that message)), whether or not `data` is there too;
\* it never gives Ok.
C1_MessageTakesPrecedence ==
    (/\ Answered
     /\ DecodesAsEnvelope(ResponseBody)
     /\ HoldsString(ResponseBody[2].message)
     /\ Unwrap(ResponseBody[2].message)[2] /= "")
        => result = Some(Err(ApiError(Unwrap(ResponseBody[2].message)[2])))

\* a body with both `data` and `message` was answered with the ApiError of
\* the message, and main has printed it as the test expects
C1_Witness ==
    /\ pc = "done"
    /\ Answered
    /\ IsObject(ResponseBody)
    /\ ResponseBody[2].data = Some(JData(Some(ScenarioA)))
    /\ ResponseBody[2].message = Some(JString(ValidationFailed))
    /\ result = Some(Err(ApiError(ValidationFailed)))
    /\ console = "Error: API error: Validation failed: Legs require valid airport codes"

RECURSIVE details_of(_)
details_of(items) ==
    IF items = <<>> THEN <<>>
    ELSE (IF IsSome(Head(items).detail) THEN <<Unwrap(Head(items).detail)>> ELSE <<>>)
            \o details_of(Tail(items))

RECURSIVE join(_, _)
join(strings, separator) ==
    IF strings = <<>> THEN ""
    ELSE IF Len(strings) = 1 THEN strings[1]
    ELSE strings[1] \o separator \o join(Tail(strings), separator)

\* C2: a body with neither `message` nor `data` whose `errors` is an array
\* with at least one `detail` gives Err(ApiError(the details joined with
\* "; " in array order)).
C2_ErrorDetailsJoined ==
    (/\ Answered
     /\ IsObject(ResponseBody)
     /\ NoMember(ResponseBody[2].message)
     /\ NoMember(ResponseBody[2].data)
     /\ ResponseBody[2].errors /= None
     /\ Unwrap(ResponseBody[2].errors)[1] = "array"
     /\ details_of(Unwrap(ResponseBody[2].errors)[2]) /= <<>>)
        => result = Some(Err(ApiError(
                join(details_of(Unwrap(ResponseBody[2].errors)[2]), "; "))))

\* C3: a body that is not JSON gives Err(UnexpectedResponseFormat) with the
\* parser's diagnostic, which main prints; never an ApiError, never Ok.
C3_UnparseableIsUnexpectedFormat ==
    (Answered /\ ResponseBody = NotJson)
        => /\ Returned.tag = "Err"
           /\ Unwrap(Returned.error).kind = "UnexpectedResponseFormat"
           /\ Unwrap(Returned.error).message /= ""
           /\ pc = "done" =>
                console = "Error: Unexpected response format: "
                            \o Unwrap(Returned.error).message

\* text that is not JSON was answered and reported as an unexpected format
C3_Witness ==
    /\ pc = "done"
    /\ Answered
    /\ ResponseBody = NotJson
    /\ Returned.tag = "Err"
    /\ Unwrap(Returned.error).kind = "UnexpectedResponseFormat"

\* C4: a body that is a JSON object with no `message`, no usable `data`
\* (absent, null, or not a data object with attributes) and no `detail` in
\* `errors` gives Err(ApiError("Missing response data")), never
\* UnexpectedResponseFormat.
C4_NoPayloadIsMissingData ==
    (/\ Answered
     /\ IsObject(ResponseBody)
     /\ NoMember(ResponseBody[2].message)
     /\ ~HoldsAttributes(ResponseBody[2].data)
     /\ \/ ResponseBody[2].errors = None
        \/ /\ Unwrap(ResponseBody[2].errors)[1] = "array"
           /\ details_of(Unwrap(ResponseBody[2].errors)[2]) = <<>>)
        => result = Some(Err(ApiError("Missing response data")))

\* C5: whatever the status code and the request, a body with `data` and no
\* `message` gives Ok with the six attributes of the body unchanged.
C5_DataReturnedWhateverTheStatus ==
    (/\ Answered
     /\ IsObject(ResponseBody)
     /\ NoMember(ResponseBody[2].message)
     /\ HoldsAttributes(ResponseBody[2].data))
        => /\ Returned.tag = "Ok"
           /\ Unwrap(Returned.value).data /= None
           /\ LET got == Unwrap(Unwrap(Returned.value).data).attributes
                  sent == AttributesIn(ResponseBody[2].data)
              IN  /\ got.carbon_g = sent.carbon_g
                  /\ got.carbon_lb = sent.carbon_lb
                  /\ got.carbon_kg = sent.carbon_kg
                  /\ got.carbon_mt = sent.carbon_mt
                  /\ got.distance_unit = sent.distance_unit
                  /\ got.distance_value = sent.distance_value

\* a two-leg request answered with status 500 and the attributes of
\* scenario A came back as Ok with those attributes
C5_Witness ==
    /\ Answered
    /\ ResponseStatus = 500
    /\ Len(Unwrap(request).legs) = 2
    /\ IsObject(ResponseBody)
    /\ ResponseBody[2].data = Some(JData(Some(ScenarioA)))
    /\ Returned.tag = "Ok"
    /\ Unwrap(Unwrap(Returned.value).data).attributes = ScenarioA

\* C6: when make_estimates_request returns Ok the response has `data` and
\* no `message`, so main never prints its own "Error: Missing response data".
C6_OkCarriesData ==
    /\ (pc \in {"report", "done"} /\ Returned.tag = "Ok")
          => /\ IsSome(Unwrap(Returned.value).data)
             /\ Unwrap(Returned.value).message = None
             /\ Returned.error = None
    /\ (pc \in {"report", "done"} /\ Returned.tag = "Err")
          => Returned.value = None /\ IsSome(Returned.error)
    /\ pc = "done" => console /= "Error: Missing response data"

\* main has printed the estimate of an Ok result
C6_Witness ==
    /\ pc = "done"
    /\ Returned.tag = "Ok"
    /\ IsSome(Unwrap(Returned.value).data)
    /\ console = "Estimated carbon footprint:"

(***************************************************************************)
(* Properties of the field validator and the itinerary builder, checked    *)
(* under SpecBuilder.                                                      *)
(***************************************************************************)
\* the line without its leading and trailing whitespace
Trimmed(line) ==
    LET inked == {k \in 1..Len(line) : line[k] \notin Whitespace} IN
    IF inked = {} THEN <<>>
    ELSE SubSeq(line,
                CHOOSE a \in inked : \A k \in inked : a <= k,
                CHOOSE b \in inked : \A k \in inked : k <= b)

\* ^[A-Z]{3}$
MatchesIata(code) ==
    Len(code) = 3 /\ \A k \in 1..3 : code[k] \in AsciiUppercase

AllCodesMatchIata(itinerary) ==
    \A k \in 1..Len(itinerary) :
        /\ MatchesIata(itinerary[k].departure_airport)
        /\ MatchesIata(itinerary[k].destination_airport)

\* what get_flight_details did with the value get_user_input returned for
\* the field: the step left the prompt and stored that value
ReturnedFor(field, value) ==
    /\ pc' /= field
    /\ value /= <<>>
    /\ validator(field, value)
    /\ CASE field = "passengers" -> numeral(passengers') = strip_sign(value)
         [] field = "number_of_legs" -> numeral(number_of_legs') = strip_sign(value)
         [] field = "departure_airport" ->
                departure_airport' = value /\ MatchesIata(value)
         [] field = "destination_airport" ->
                destination_airport' = value /\ MatchesIata(value)
         [] field = "cabin_class" ->
                /\ Len(legs') = Len(legs) + 1
                /\ legs'[Len(legs')].cabin_class = Some(value)

\* get_user_input printed the error message and is prompting again
PromptedAgain(field) ==
    /\ pc' = field
    /\ console' = error_message(field)
    /\ attempts' = attempts + 1
    /\ UNCHANGED <<builder_vars, request>>

\* C7: get_user_input returns only the trimmed form of a line read, which
\* is non-empty and passes the validator; any other line gets the error
\* message and the same prompt again, however many came before.  No airport
\* code that fails ^[A-Z]{3}$ is returned or stored in a leg.
C7_OnlyValidTrimmedInputReturned ==
    [][/\ pc \in Fields =>
            IF Trimmed(input') /= <<>> /\ validator(pc, Trimmed(input'))
            THEN ReturnedFor(pc, Trimmed(input'))
            ELSE PromptedAgain(pc)
       /\ AllCodesMatchIata(legs')
       /\ IsSome(request') => AllCodesMatchIata(Unwrap(request').legs)]_vars

\* with one leg stored, the line " JFK\t\r\n" was read at the destination
\* prompt and JFK was returned
C7_Witness ==
    /\ pc = "cabin_class"
    /\ Len(legs) = 1
    /\ input = <<" ", "J", "F", "K", "\t", "\r", "\n">>
    /\ destination_airport = JFK

\* C8: a blank line at the cabin-class prompt is accepted and the leg is
\* stored with cabin class "economy".
C8_BlankCabinClassIsEconomy ==
    [][(pc = "cabin_class" /\ Trimmed(input') = <<>>)
          => /\ Len(legs') = Len(legs) + 1
             /\ legs'[Len(legs')].cabin_class = Some(economy)]_vars

\* C9: for a leg count N the builder asks for N sets of fields, each in the
\* order departure, destination, cabin class, appends one leg per set in
\* the order entered, and hands exactly those N legs to the request; with
\* N = 0 it asks for none and the request has no legs.
C9_ExactlyNLegsInOrder ==
    [][/\ (pc = "number_of_legs" /\ pc' /= pc)
            => /\ legs' = <<>>
               /\ pc' = IF number_of_legs' = 0 THEN "build_request"
                                               ELSE "departure_airport"
       /\ (pc = "departure_airport" /\ pc' /= pc)
            => pc' = "destination_airport" /\ legs' = legs
       /\ (pc = "destination_airport" /\ pc' /= pc)
            => pc' = "cabin_class" /\ legs' = legs
       /\ (pc = "cabin_class" /\ (pc' /= pc \/ legs' /= legs))
            => /\ Len(legs') = Len(legs) + 1
               /\ SubSeq(legs', 1, Len(legs)) = legs
               /\ legs'[Len(legs')].departure_airport = departure_airport
               /\ legs'[Len(legs')].destination_airport = destination_airport
               /\ pc' = IF Len(legs') = number_of_legs THEN "build_request"
                                                       ELSE "departure_airport"
       /\ pc' \in {"departure_airport", "destination_airport", "cabin_class"}
            => Len(legs') < number_of_legs'
       /\ pc' = "build_request" => Len(legs') = number_of_legs'
       /\ (pc = "build_request" /\ pc' /= pc)
            => /\ pc' = "make_estimates_request"
               /\ Unwrap(request').legs = legs
               /\ Len(Unwrap(request').legs) = number_of_legs]_vars

\* two legs were declared and entered, and the request holds them in the
\* order entered
C9_Witness ==
    /\ pc = "make_estimates_request"
    /\ number_of_legs = 2
    /\ request /= None
    /\ Unwrap(request).legs = <<Leg(LHR, JFK, Some(economy)),
                                Leg(JFK, LHR, Some(premium))>>

\* C10: the passenger count of every request built is a positive integer.
C10_PassengersPositive ==
    IsSome(request) => Unwrap(request).passengers > 0

(***************************************************************************)
(* Properties of the transport and of the request on the wire, checked     *)
(* under SpecPipeline.                                                     *)
(***************************************************************************)
\* C11: one run makes exactly one network call, in make_estimates_request,
\* and none afterwards.  When send() or text() fails the result is
\* Err(NetworkError) and no body is interpreted; when they succeed
\* post_estimate hands on the body as it came.
C11_OneCallNoRetry ==
    [][/\ pc = "make_estimates_request"
            => /\ network_calls' = network_calls + 1
               /\ pc' = "report"
               /\ result' /= None
               /\ transport'[1] \in {"send_error", "text_error"}
                    => /\ Unwrap(result').tag = "Err"
                       /\ Unwrap(Unwrap(result').error).kind = "NetworkError"
               /\ transport'[1] = "response"
                    => /\ post_estimate(transport') = Ok(transport'[3])
                       /\ Unwrap(result').tag = "Err"
                            => Unwrap(Unwrap(result').error).kind /= "NetworkError"
       /\ pc /= "make_estimates_request"
            => /\ network_calls' = network_calls
               /\ transport' = transport
               /\ result' = result
       /\ network_calls' <= 1]_vars

\* the reading of the body failed: one call was made, and main reported the
\* network error
C11_Witness ==
    /\ pc = "done"
    /\ transport[1] = "text_error"
    /\ network_calls = 1
    /\ result = Some(Err(NetworkError("error decoding response body")))
    /\ console = "Error: Network error: error decoding response body"

\* the keys of a serialized object
Keys(object) == {object[k][1] : k \in 1..Len(object)}
\* the value written under a key
Member(object, key) == object[CHOOSE k \in 1..Len(object) : object[k][1] = key][2]

\* C12: the request sent has the keys type, passengers and legs, one
\* object per leg in order, the key cabin_class in a leg exactly when the
\* leg's cabin class is set, and the key distance_unit exactly when the
\* distance unit is set.
C12_OptionalKeysOmittedWhenUnset ==
    IsSome(json_body) =>
        LET sent == Unwrap(json_body)
            req == Unwrap(request)
        IN  /\ {"type", "passengers", "legs"} \subseteq Keys(sent)
            /\ Member(sent, "type") = "flight"
            /\ Member(sent, "passengers") = req.passengers
            /\ "distance_unit" \in Keys(sent) <=> req.distance_unit /= None
            /\ Len(Member(sent, "legs")) = Len(req.legs)
            /\ \A k \in 1..Len(req.legs) :
                  LET leg == Member(sent, "legs")[k] IN
                  /\ {"departure_airport", "destination_airport"} \subseteq Keys(leg)
                  /\ "cabin_class" \in Keys(leg) <=> req.legs[k].cabin_class /= None

\* the single-leg request of the tests, with cabin class and distance unit
\* unset, was sent with neither key
C12_Witness ==
    /\ IsSome(json_body)
    /\ request = Some(FlightEstimateRequest(100, <<Leg(LHR, JFK, None)>>))
    /\ Keys(Unwrap(json_body)) = {"type", "passengers", "legs"}
    /\ Keys(Member(Unwrap(json_body), "legs")[1])
          = {"departure_airport", "destination_airport"}

====
